---- MODULE Spec2Model ----
(***************************************************************************)
(* peniche: a cargo workspace manager and a parallel command runner.       *)
(*                                                                         *)
(*   SpecWorkspace  Workspace::{from_path, create_member_crate,            *)
(*                  remove_member_crate} over a workspace on disk          *)
(*   SpecRun        Config::execute_commands_in_parallel and               *)
(*                  Command::stream_command over child processes           *)
(*   SpecResolve    the platform resolution of stream_command, as a        *)
(*                  function of the command and of the host OS             *)
(*   SpecWorkspaceFaults  SpecWorkspace on a filesystem that may fail      *)
(*   SpecInitialize Workspace::initialize, write by write                  *)
(*   SpecKrate      Krate::{new, from_path, link_to} over a manifest       *)
(*   SpecGlobal     Krate::{install_krate_globally,                        *)
(*                  uninstall_krate_globally}                              *)
(*   SpecLoad       Config::from_file over a parsed cmd table              *)
(*   SpecSplit      resolve_manifest_path, applied once and again          *)
(***************************************************************************)
EXTENDS Integers, Sequences, FiniteSets, TLC

VARIABLES
    \* ---- the workspace on disk and the Workspace instance ----
    manifest,   \* the root Cargo.toml: [name, members], members a sequence of path strings
    dirs,       \* package directories on disk: path -> name of the package in its Cargo.toml
    crates,     \* Workspace.crates of the one Workspace instance: name -> Krate
    hist,       \* the last two calls on the instance, each with the state it found
    faulty,     \* whether the filesystem may fail a write or a deletion
    \* ---- the command runner ----
    hostOs,     \* std::env::consts::OS of the build
    names,      \* cmd_names given to execute_commands_in_parallel
    idx,        \* position of the `for name in cmd_names` loop
    batchPc,    \* "launching" | "joining" | "returned"
    reported,   \* names reported as not found, in order
    joined,     \* tasks join_next has returned
    task,       \* position in names -> the task spawned for it (stream_command and its child)
    \* ---- platform resolution alone ----
    rcmd,       \* the Command resolved
    rline,      \* the line stream_command derives from it, or Unresolved
    \* ---- Workspace::initialize ----
    file,       \* the Cargo.toml under the path initialized: [exists, text]
    initPc,     \* "idle" | "write" | "load": where the call in progress stands
    inits,      \* the calls made: [name, pre], pre the file each found
    \* ---- Krate ----
    disk,       \* package manifests on disk: manifest path -> [name, version, deps]
    thisKrate,  \* the Krate constructed, if any: <<>> or <<k>>
    krateRes,   \* "none" | "ok" | "err": how the constructor returned
    links,      \* the link_to calls made on krate: [dep, pre, result]
    \* ---- Config::from_file ----
    raw,        \* RawConfig.cmd as parsed from Peniche.toml: key -> value
    pending,    \* keys the `for (key, value) in raw_config.cmd` loop has yet to visit
    loopCommands, \* the local `commands` map of the loop
    loadPc,     \* "iter" | "ok" | "err"
    config,     \* what from_file returned: <<>> or <<Config>>
    \* ---- resolve_manifest_path alone ----
    splitPath,  \* the path given
    splitOut,   \* the results so far: of the path, then of its manifest path
    \* ---- install / uninstall of the Krate ----
    adapter,    \* the cargo operations invoked: "install" | "uninstall", in order
    globals     \* the calls made on the Krate: [op, result, invoked]

wsVars  == <<manifest, dirs, crates, hist, faulty>>
runVars == <<hostOs, names, idx, batchPc, reported, joined, task>>
resVars == <<rcmd, rline>>
initVars == <<file, initPc, inits>>
krateVars == <<disk, thisKrate, krateRes, links>>
loadVars == <<raw, pending, loopCommands, loadPc, config>>
splitVars == <<splitPath, splitOut>>
globalVars == <<adapter, globals>>
moreVars == <<splitVars, globalVars>>
auxVars == <<initVars, krateVars, loadVars, moreVars>>
vars    == <<manifest, dirs, crates, hist, faulty, hostOs, names, idx, batchPc, reported,
             joined, task, rcmd, rline, file, initPc, inits, disk, thisKrate, krateRes,
             links, raw, pending, loopCommands,
             loadPc, config, splitPath, splitOut, adapter, globals>>

None == "none"

(***************************************************************************)
(* Workspace                                                               *)
(***************************************************************************)

\* Package names and the paths (relative to the workspace root) a package
\* can be created at.  A package's directory need not be named after it.
PkgNames == {"foo", "bar"}
PkgPaths == {"foo", "crates/foo", "bar"}
KrateKinds == {"Bin", "Lib"}

EmptyMap == [x \in {} |-> None]

Range(s) == {s[i] : i \in DOMAIN s}

\* Krate::from_path: the package read from the manifest under `path` of the
\* disk state d; its source is always KrateSource::Path(path).
KrateFromPath(d, path) ==
    [name |-> d[path], source |-> "Path", path |-> path]

\* cargo::core::Workspace::new as from_path uses it: every listed member
\* must have a manifest, and no two members may carry the same name.
CargoLoads(m, d) ==
    /\ \A i \in DOMAIN m.members : m.members[i] \in DOMAIN d
    /\ \A i, j \in DOMAIN m.members :
          d[m.members[i]] = d[m.members[j]] => m.members[i] = m.members[j]

\* Workspace::from_path: the crates map of a fresh load of the disk state
\* (m, d): one Krate per member cargo lists, keyed by package name.
LoadCrates(m, d) ==
    [n \in {d[p] : p \in Range(m.members)} |->
        KrateFromPath(d, CHOOSE q \in Range(m.members) : d[q] = n)]

\* The names a fresh reload of the disk lists (none when it fails).
ReloadNames == IF CargoLoads(manifest, dirs) THEN DOMAIN LoadCrates(manifest, dirs)
               ELSE {}

Call(op, name, path, del, result, fault) ==
    [op |-> op, name |-> name, path |-> path, del |-> del, result |-> result,
     fault |-> fault,
     wasMember |-> name \in DOMAIN crates,
     preManifest |-> manifest, preDirs |-> dirs, preCrates |-> crates]

Record(call) == IF hist = <<>> THEN <<call>> ELSE <<hist[Len(hist)], call>>

Last == hist[Len(hist)]

\* Workspace::from_path, the instance replaced by a fresh load.
FromPath ==
    /\ CargoLoads(manifest, dirs)
    /\ crates' = LoadCrates(manifest, dirs)
    /\ hist' = Record(Call("load", None, None, FALSE, "ok", "none"))
    /\ UNCHANGED <<manifest, dirs, faulty, runVars, resVars, auxVars>>

\* The members array after cargo registered a new package at `path`.
Registered(members, path) ==
    IF path \in Range(members) THEN members ELSE Append(members, path)

\* Workspace::create_member_crate -> Krate::create_in_workspace: cargo
\* scaffolds the package and registers it in the root manifest; the method
\* takes &self and returns the Krate, the instance's map is not touched.
CreateMember(name, path, kind) ==
    /\ path \notin DOMAIN dirs          \* ops::new refuses an existing destination
    /\ dirs' = (path :> name) @@ dirs
    /\ manifest' = [manifest EXCEPT !.members = Registered(@, path)]
    /\ hist' = Record(Call("create", name, path, FALSE, "ok", "none"))
    /\ UNCHANGED <<crates, faulty, runVars, resVars, auxVars>>

\* members.retain(|v| v.as_str() != Some(name))
Retain(members, name) == SelectSeq(members, LAMBDA v : v # name)

\* The early return of remove_member_crate.
IsMemberCrate(name) == name \in DOMAIN crates

RemoveDirAll(d, path) == [p \in DOMAIN d \ {path} |-> d[p]]

\* What the filesystem does to one call: nothing, or the root manifest is
\* not found, not read or not parsed, or its write fails, or the removal
\* of the directory fails.
FaultChoices == IF faulty THEN {"none", "read", "write", "rmdir"} ELSE {"none"}

\* remove_member_crate without its contains_key check: the array is
\* filtered and written for any name, and crates.remove then finds nothing.
RemoveMemberUnchecked(name, del) ==
    LET kept == Retain(manifest.members, name) IN
    /\ UNCHANGED <<faulty, runVars, resVars, auxVars>>
    /\ IF Len(kept) = Len(manifest.members)
       THEN /\ hist' = Record(Call("remove", name, None, del, "false", "none"))
            /\ UNCHANGED <<manifest, dirs, crates>>
       ELSE /\ manifest' = [manifest EXCEPT !.members = kept]
            /\ crates' = [n \in DOMAIN crates \ {name} |-> crates[n]]
            /\ dirs' = IF del /\ IsMemberCrate(name) /\ crates[name].path \in DOMAIN dirs
                       THEN RemoveDirAll(dirs, crates[name].path) ELSE dirs
            /\ hist' = Record(Call("remove", name, None, del,
                                   IF IsMemberCrate(name) THEN "true" ELSE "err", "none"))

\* remove_member_crate undoing the write and the map removal when the
\* directory cannot be removed.
RemoveMemberRollingBack(name, del) ==
    LET kept == Retain(manifest.members, name) IN
    /\ UNCHANGED <<faulty, runVars, resVars, auxVars>>
    /\ \E f \in FaultChoices :
          IF f = "read"
          THEN /\ hist' = Record(Call("remove", name, None, del, "err:read", "read"))
               /\ UNCHANGED <<manifest, dirs, crates>>
          ELSE IF ~IsMemberCrate(name) \/ Len(kept) = Len(manifest.members)
          THEN /\ hist' = Record(Call("remove", name, None, del, "false", "none"))
               /\ UNCHANGED <<manifest, dirs, crates>>
          ELSE IF f # "none"
          THEN /\ hist' = Record(Call("remove", name, crates[name].path, del,
                                      IF f = "write" THEN "err:write" ELSE "err:rmdir",
                                      IF f = "rmdir" /\ ~del THEN "none" ELSE f))
               /\ UNCHANGED <<manifest, dirs, crates>>
          ELSE /\ manifest' = [manifest EXCEPT !.members = kept]
               /\ crates' = [n \in DOMAIN crates \ {name} |-> crates[n]]
               /\ dirs' = IF del THEN RemoveDirAll(dirs, crates[name].path) ELSE dirs
               /\ hist' = Record(Call("remove", name, crates[name].path, del, "true", "none"))

\* remove_member_crate taking the crate out of the map before the write
\* of the root manifest.
RemoveMemberMapFirst(name, del) ==
    LET kept == Retain(manifest.members, name) IN
    /\ UNCHANGED <<faulty, runVars, resVars, auxVars>>
    /\ \E f \in FaultChoices :
          IF f = "read"
          THEN /\ hist' = Record(Call("remove", name, None, del, "err:read", "read"))
               /\ UNCHANGED <<manifest, dirs, crates>>
          ELSE IF ~IsMemberCrate(name) \/ Len(kept) = Len(manifest.members)
          THEN /\ hist' = Record(Call("remove", name, None, del, "false", "none"))
               /\ UNCHANGED <<manifest, dirs, crates>>
          ELSE /\ crates' = [n \in DOMAIN crates \ {name} |-> crates[n]]
               /\ dirs' = dirs
               /\ IF f = "write"
                  THEN /\ manifest' = manifest
                       /\ hist' = Record(Call("remove", name, crates[name].path, del,
                                              "err:write", "write"))
                  ELSE /\ manifest' = [manifest EXCEPT !.members = kept]
                       /\ hist' = Record(Call("remove", name, crates[name].path, del,
                                              "true", "none"))

\* Workspace::remove_member_crate.  The root manifest is read and parsed
\* first; then a name outside the map returns Ok(false); then the array is
\* filtered by comparing each path string with the name, and only a
\* shorter array is written back (atomically: all of it or, on failure,
\* nothing), the crate taken out of the map and, on delete_files, its
\* directory removed; a failure of either `?` is the Err of the call.
RemoveMember(name, del) ==
    LET kept == Retain(manifest.members, name) IN
    /\ UNCHANGED <<faulty, runVars, resVars, auxVars>>
    /\ \E f \in FaultChoices :
          IF f = "read"
          THEN /\ hist' = Record(Call("remove", name, None, del, "err:read", "read"))
               /\ UNCHANGED <<manifest, dirs, crates>>
          ELSE IF ~IsMemberCrate(name)
          THEN /\ hist' = Record(Call("remove", name, None, del, "false", "none"))
               /\ UNCHANGED <<manifest, dirs, crates>>
          ELSE IF Len(kept) = Len(manifest.members)
          THEN /\ hist' = Record(Call("remove", name, None, del, "false", "none"))
               /\ UNCHANGED <<manifest, dirs, crates>>
          ELSE IF f = "write"
          THEN /\ hist' = Record(Call("remove", name, crates[name].path, del,
                                      "err:write", "write"))
               /\ UNCHANGED <<manifest, dirs, crates>>
          ELSE LET krate == crates[name] IN
               /\ manifest' = [manifest EXCEPT !.members = kept]
               /\ crates' = [n \in DOMAIN crates \ {name} |-> crates[n]]
               /\ IF del /\ krate.source = "Path"
                  THEN IF f # "rmdir" /\ krate.path \in DOMAIN dirs
                       THEN /\ dirs' = RemoveDirAll(dirs, krate.path)
                            /\ hist' = Record(Call("remove", name, krate.path, del,
                                                   "true", "none"))
                       ELSE /\ dirs' = dirs
                            /\ hist' = Record(Call("remove", name, krate.path, del,
                                                   "err:rmdir", "rmdir"))
                  ELSE /\ dirs' = dirs
                       /\ hist' = Record(Call("remove", name, krate.path, del,
                                              "true", "none"))

(***************************************************************************)
(* Command registry and platform resolution                                *)
(***************************************************************************)

\* A shell line is the sequence of its whitespace-separated words; an
\* Option<String> is <<>> (None) or <<line>> (Some(line)).
NoLine == <<>>
Some(line) == <<line>>
EmptyLine == <<>>

Simple(key, line) ==
    [kind |-> "Simple", key |-> key, command |-> line]

PlatformSpecific(key, w, l, d, c) ==
    [kind |-> "PlatformSpecific", key |-> key,
     commands |-> [windows |-> w, linux |-> l, darwin |-> d, command |-> c]]

\* The values std::env::consts::OS takes on the hosts considered: Windows,
\* Linux, macOS and one host the match does not name.
HostOSes == {"windows", "linux", "macos", "freebsd"}

\* The resolution without `.or(commands.command.as_deref())`.
OrElseNothing(a, b) == a

\* Option::or and Option::unwrap_or_default on Option<&str>.
OrElse(a, b) == IF a # NoLine THEN a ELSE b
UnwrapOrDefault(a) == IF a # NoLine THEN a[1] ELSE EmptyLine

\* match os_type { "windows" => .., "linux" => .., "darwin" => .., _ => .. }
OsEntry(commands, os) ==
    CASE os = "windows" -> commands.windows
      [] os = "linux"   -> commands.linux
      [] os = "darwin"  -> commands.darwin
      [] OTHER          -> commands.command

\* The line stream_command runs for `command` on host `os`.
ResolveLine(command, os) ==
    IF command.kind = "Simple" THEN command.command
    ELSE UnwrapOrDefault(OrElse(OsEntry(command.commands, os), command.commands.command))

\* parse_command: the first word is the program, the rest its arguments;
\* an empty line gives the program "".
ParseCommand(line) ==
    [program |-> IF line = <<>> THEN "" ELSE Head(line),
     args    |-> IF line = <<>> THEN <<>> ELSE Tail(line)]

\* Resolution alone: a command and a host are drawn, Resolve applies the
\* resolution of stream_command to them.
LineW == <<"echo", "W">>
LineL == <<"echo", "L">>
LineD == <<"echo", "D">>
LineC == <<"echo", "C">>

ResolvableCommands ==
    { PlatformSpecific("test", w, l, d, c) :
        w \in {NoLine, Some(LineW)}, l \in {NoLine, Some(LineL)},
        d \in {NoLine, Some(LineD)}, c \in {NoLine, Some(LineC)} }
    \cup { Simple("build", <<"echo", "hi">>) }

Resolve ==
    /\ rline = NoLine
    /\ rline' = Some(ResolveLine(rcmd, hostOs))
    /\ UNCHANGED <<wsVars, auxVars, rcmd, hostOs, names, idx, batchPc, reported, joined, task>>

(***************************************************************************)
(* Command runner                                                          *)
(***************************************************************************)

\* Config.cmd, the registry the runner reads.
cmd ==
    ("build" :> Simple("build", <<"echo", "hi">>)) @@
    ("test"  :> PlatformSpecific("test", NoLine, Some(LineL), NoLine, Some(LineC))) @@
    ("noop"  :> PlatformSpecific("noop", NoLine, NoLine, Some(LineD), NoLine))

\* The lists of names a batch is run with: known names, a name the
\* registry lacks at every position, and a command without a line for the
\* host.
NameLists ==
    { <<"build">>, <<"nope">>, <<"noop">>,
      <<"build", "test">>, <<"nope", "build">>, <<"build", "nope">>,
      <<"nope", "test", "nope">> }

\* The positions a name, and so a task, can have in a list.
Positions == UNION {DOMAIN l : l \in NameLists}

Streams == {"out", "err"}

\* Lines a child writes to one stream at most, when its command runs alone
\* (MaxLines) and when the batch runs several commands (BatchLines), and
\* lines a pipe holds before the writer blocks.
MaxLines == 2
BatchLines == 1
PipeCap == 1

Known == {i \in DOMAIN names : names[i] \in DOMAIN cmd}

\* The outputs a child of this batch may have in mind: a number of lines
\* for each stream.
ChildPlans ==
    [Streams -> 0..(IF Cardinality(Known) > 1 THEN BatchLines ELSE MaxLines)]

Zero == [s \in Streams |-> 0]
Neither == [s \in Streams |-> FALSE]

\* A name the loop has not spawned a task for.
NotSpawned ==
    [pc |-> "idle", key |-> None, line |-> EmptyLine, child |-> "none", code |-> 0,
     plan |-> Zero, wrote |-> Zero, pipe |-> Zero, shut |-> Neither,
     fwd |-> Zero, eof |-> Neither, readErr |-> FALSE]

Launched == {t \in DOMAIN task : task[t].pc # "idle"}
Finished == {t \in DOMAIN task : task[t].pc \in {"done", "panicked"}}

\* The loop leaving at the first unknown name.
BatchStepAborting ==
    /\ batchPc = "launching"
    /\ idx <= Len(names)
    /\ IF names[idx] \in DOMAIN cmd
       THEN /\ task' = [task EXCEPT ![idx].pc = "start", ![idx].key = names[idx]]
            /\ idx' = idx + 1
            /\ UNCHANGED reported
       ELSE /\ reported' = Append(reported, names[idx])
            /\ idx' = Len(names) + 1
            /\ UNCHANGED task
    /\ UNCHANGED <<wsVars, resVars, auxVars, hostOs, names, batchPc, joined>>

\* One iteration of `for name in cmd_names`: a known name gets a task of
\* its own, an unknown one is reported.
BatchStep ==
    /\ batchPc = "launching"
    /\ idx <= Len(names)
    /\ IF names[idx] \in DOMAIN cmd
       THEN /\ task' = [task EXCEPT ![idx].pc = "start", ![idx].key = names[idx]]
            /\ UNCHANGED reported
       ELSE /\ reported' = Append(reported, names[idx])
            /\ UNCHANGED task
    /\ idx' = idx + 1
    /\ UNCHANGED <<wsVars, resVars, auxVars, hostOs, names, batchPc, joined>>

\* The loop is over: the batch turns to `while join_set.join_next()`.
BatchJoinAll ==
    /\ batchPc = "launching"
    /\ idx > Len(names)
    /\ batchPc' = "joining"
    /\ UNCHANGED <<wsVars, resVars, auxVars, hostOs, names, idx, reported, joined, task>>

\* join_next whose Err (a panicked task) ends the batch at once.
JoinNextFailFast(t) ==
    /\ batchPc = "joining"
    /\ t \in Finished \ joined
    /\ joined' = joined \cup {t}
    /\ batchPc' = IF task[t].pc = "panicked" THEN "returned" ELSE batchPc
    /\ UNCHANGED <<wsVars, resVars, auxVars, hostOs, names, idx, reported, task>>

\* join_next returns a task that has finished, by return or by panic.
JoinNext(t) ==
    /\ batchPc = "joining"
    /\ t \in Finished \ joined
    /\ joined' = joined \cup {t}
    /\ UNCHANGED <<wsVars, resVars, auxVars, hostOs, names, idx, batchPc, reported, task>>

\* The batch returning after the first task it joined.
BatchReturnEarly ==
    /\ batchPc = "joining"
    /\ joined # {} \/ Launched = {}
    /\ batchPc' = "returned"
    /\ UNCHANGED <<wsVars, resVars, auxVars, hostOs, names, idx, reported, joined, task>>

\* join_next returns None: the set is empty, the batch returns.
BatchReturn ==
    /\ batchPc = "joining"
    /\ joined = Launched
    /\ batchPc' = "returned"
    /\ UNCHANGED <<wsVars, resVars, auxVars, hostOs, names, idx, reported, joined, task>>

\* "[key]": the tag every forwarded line is prefixed with.
TagKey(key) == <<"[", key, "]">>

\* What a task has printed for stream s: the lines forwarded so far, each
\* behind the tag of its command.
Sink(t, s) == [k \in 1..task[t].fwd[s] |-> <<TagKey(task[t].key), <<s, k>>>>]

\* stream_command up to `.spawn()?`: the line is resolved and split, the
\* child is spawned with both streams piped.  The program "" cannot be
\* launched, and any other launch may fail too; the Err reaches the
\* `.unwrap()` of the task, which panics.
TaskSpawn(t) ==
    LET line == ResolveLine(cmd[task[t].key], hostOs)
        prog == ParseCommand(line).program
    IN
    /\ t \in DOMAIN task
    /\ task[t].pc = "start"
    /\ \E ok \in BOOLEAN, p \in ChildPlans :
          IF ok /\ prog # ""
          THEN task' = [task EXCEPT ![t].pc = "select", ![t].line = line,
                                    ![t].child = "running", ![t].plan = p]
          ELSE /\ p = Zero
               /\ task' = [task EXCEPT ![t].pc = "panicked", ![t].line = line]
    /\ UNCHANGED <<wsVars, resVars, auxVars, hostOs, names, idx, batchPc, reported, joined>>

\* One turn of a reader's `while let Some(line) = lines.next_line().await?`:
\* a line is taken from the pipe and printed behind the tag.
ReadLine(t, s) ==
    /\ t \in DOMAIN task
    /\ task[t].pc = "select"
    /\ task[t].pipe[s] > 0
    /\ task' = [task EXCEPT ![t].pipe[s] = @ - 1, ![t].fwd[s] = @ + 1]
    /\ UNCHANGED <<wsVars, resVars, auxVars, hostOs, names, idx, batchPc, reported, joined>>

\* next_line gives None on stream s: that reader's block is over, and
\* tokio::select! completes with the first block that is over, dropping the
\* other; stream_command goes on to child.wait().
ReadEof(t, s) ==
    /\ t \in DOMAIN task
    /\ task[t].pc = "select"
    /\ task[t].pipe[s] = 0
    /\ task[t].shut[s]
    /\ task' = [task EXCEPT ![t].eof[s] = TRUE, ![t].pc = "wait"]
    /\ UNCHANGED <<wsVars, resVars, auxVars, hostOs, names, idx, batchPc, reported, joined>>

\* next_line fails on stream s (a line that is not UTF-8): `?` ends that
\* reader's block with Err, which the `_ =` pattern of select! accepts as
\* well; the line is consumed and not printed.
ReadErr(t, s) ==
    /\ t \in DOMAIN task
    /\ task[t].pc = "select"
    /\ task[t].pipe[s] > 0
    /\ task' = [task EXCEPT ![t].pipe[s] = @ - 1, ![t].readErr = TRUE, ![t].pc = "wait"]
    /\ UNCHANGED <<wsVars, resVars, auxVars, hostOs, names, idx, batchPc, reported, joined>>

\* child.wait().await?; Ok(()) -- the exit status is dropped.
Wait(t) ==
    /\ t \in DOMAIN task
    /\ task[t].pc = "wait"
    /\ task[t].child = "exited"
    /\ task' = [task EXCEPT ![t].pc = "done"]
    /\ UNCHANGED <<wsVars, resVars, auxVars, hostOs, names, idx, batchPc, reported, joined>>

\* The child writes its next line to stream s; it blocks while the pipe is full.
ChildWrite(t, s) ==
    /\ t \in DOMAIN task
    /\ task[t].child = "running"
    /\ ~task[t].shut[s]
    /\ task[t].wrote[s] < task[t].plan[s]
    /\ task[t].pipe[s] < PipeCap
    /\ task' = [task EXCEPT ![t].wrote[s] = @ + 1, ![t].pipe[s] = @ + 1]
    /\ UNCHANGED <<wsVars, resVars, auxVars, hostOs, names, idx, batchPc, reported, joined>>

\* The child closes stream s once it has written all it had for it.
ChildClose(t, s) ==
    /\ t \in DOMAIN task
    /\ task[t].child = "running"
    /\ ~task[t].shut[s]
    /\ task[t].wrote[s] = task[t].plan[s]
    /\ task' = [task EXCEPT ![t].shut[s] = TRUE]
    /\ UNCHANGED <<wsVars, resVars, auxVars, hostOs, names, idx, batchPc, reported, joined>>

\* The child exits, with a status, once all its output is written; both
\* streams are closed by then.
ChildExit(t, code) ==
    /\ t \in DOMAIN task
    /\ task[t].child = "running"
    /\ \A s \in Streams : task[t].wrote[s] = task[t].plan[s]
    /\ task' = [task EXCEPT ![t].child = "exited", ![t].code = code,
                            ![t].shut = [s \in Streams |-> TRUE]]
    /\ UNCHANGED <<wsVars, resVars, auxVars, hostOs, names, idx, batchPc, reported, joined>>

ExitCodes == {0, 1}

(***************************************************************************)
(* Workspace::initialize                                                   *)
(***************************************************************************)

\* The names initialize is called with; "old" is the name a descriptor
\* found on disk carries.
WorkspaceNames == {"demo", "other", "old"}

NoFile == [exists |-> FALSE, text |-> <<>>]
FileOf(text) == [exists |-> TRUE, text |-> text]

\* The four lines initialize writes, and the same with a members array
\* written by hand.
Descriptor(name, members) ==
    << <<"[workspace]">>, <<"resolver = ", "2">>, <<"name = ", name>>,
       <<"members = ", members>> >>
FreshDescriptor(name) == Descriptor(name, "[]")

\* What the path holds before the first call: nothing, a descriptor of an
\* earlier initialize, or one that lists a member that is not on disk.
InitialFiles ==
    {NoFile, FileOf(FreshDescriptor("old")), FileOf(Descriptor("old", "[\"gone\"]"))}

\* The number of initialize calls in one behaviour.
MaxInits == 3

\* cargo reading the root manifest for from_path: it needs the [workspace]
\* table whole, and every member listed on disk.
DescriptorLoads(f) ==
    /\ f.exists
    /\ Len(f.text) = Len(FreshDescriptor("old"))
    /\ f.text[Len(f.text)] = <<"members = ", "[]">>

\* initialize without the `if !manifest_path.exists()`.
InitializeBeginAlways(name) ==
    /\ initPc = "idle"
    /\ Len(inits) < MaxInits
    /\ inits' = Append(inits, [name |-> name, pre |-> file, result |-> "running"])
    /\ file' = FileOf(<<>>)
    /\ initPc' = "write"
    /\ UNCHANGED <<wsVars, runVars, resVars, krateVars, loadVars, moreVars>>

\* initialize up to File::create: mkdirp, resolve_manifest_path, and the
\* file created empty unless one exists.
InitializeBegin(name) ==
    /\ initPc = "idle"
    /\ Len(inits) < MaxInits
    /\ inits' = Append(inits, [name |-> name, pre |-> file, result |-> "running"])
    /\ IF file.exists
       THEN /\ initPc' = "load"
            /\ UNCHANGED file
       ELSE /\ file' = FileOf(<<>>)
            /\ initPc' = "write"
    /\ UNCHANGED <<wsVars, runVars, resVars, krateVars, loadVars, moreVars>>

\* One writeln!(file, ..): the next of the four lines reaches the file.
InitializeWrite ==
    /\ initPc = "write"
    /\ LET want == FreshDescriptor(inits[Len(inits)].name)
           k == Len(file.text) + 1
       IN  /\ file' = FileOf(Append(file.text, want[k]))
           /\ initPc' = IF k = Len(want) THEN "load" ELSE "write"
    /\ UNCHANGED <<inits, wsVars, runVars, resVars, krateVars, loadVars, moreVars>>

\* Ok(Self::from_path(..)?): the call returns the workspace loaded from
\* the file, or the error of the load.
InitializeLoad ==
    /\ initPc = "load"
    /\ initPc' = "idle"
    /\ inits' = [inits EXCEPT ![Len(inits)].result =
                    IF DescriptorLoads(file) THEN "ok" ELSE "err"]
    /\ crates' = IF DescriptorLoads(file) THEN EmptyMap ELSE crates
    /\ UNCHANGED <<file, manifest, dirs, hist, faulty, runVars, resVars, krateVars,
                   loadVars, moreVars>>

(***************************************************************************)
(* resolve_manifest_path (lib.rs) and Krate (krate/mod.rs)                 *)
(***************************************************************************)

\* A path is the sequence of its components; the empty path is <<>>.
ManifestName == "Cargo.toml"

\* path.parent() left out: the path itself.
ParentSkipped(path) == path

\* path.parent(): the path without its last component.
Parent(path) == SubSeq(path, 1, Len(path) - 1)

\* path.to_string_lossy().len(): the components and the separators
\* between them.
RECURSIVE PathLen(_)
PathLen(path) ==
    IF path = <<>> THEN 0
    ELSE IF Len(path) = 1 THEN Len(path[1])
    ELSE Len(path[1]) + 1 + PathLen(Tail(path))

\* The width of usize.
UsizeBits == 64

RECURSIVE BitOf(_, _)
BitOf(n, b) == IF b = 0 THEN n % 2 ELSE BitOf(n \div 2, b - 1)

\* The test read as `!(len > 0)`.
NotOfLenPositive(len) == ~(len > 0)

\* `!len > 0`: `!` binds tighter than `>` and is the bitwise complement of
\* the usize, which is positive when some bit of len is 0.
NotLenPositive(len) == \E b \in 0..(UsizeBits - 1) : BitOf(len, b) = 0

\* resolve_manifest_path: <<package root, manifest path>>.
ResolveManifestPath(path) ==
    LET is_manifest == path # <<>> /\ path[Len(path)] = ManifestName
        manifest_path == IF is_manifest THEN path
                         ELSE IF NotLenPositive(PathLen(path))
                              THEN path \o <<ManifestName>>
                              ELSE path
    IN  << IF is_manifest THEN Parent(path) ELSE path, manifest_path >>

\* KrateSource.
Registry == [kind |-> "Registry", path |-> <<>>, url |-> ""]
Path(p) == [kind |-> "Path", path |-> p, url |-> ""]
Git(url) == [kind |-> "Git", path |-> <<>>, url |-> url]
Workspace == [kind |-> "Workspace", path |-> <<>>, url |-> ""]

NoPath == <<>>

\* Krate::new with `KrateSource::Path(path) => Some(..)` taken out.
KrateNewWithoutManifestPath(name, version, source) ==
    [name |-> name, version |-> version, path |-> source,
     manifest_path |-> NoPath, dependencies |-> EmptyMap]

\* Krate::new.
KrateNew(name, version, source) ==
    [name |-> name, version |-> version, path |-> source,
     manifest_path |-> IF source.kind = "Path"
                       THEN Some(ResolveManifestPath(source.path)[2])
                       ELSE NoPath,
     dependencies |-> EmptyMap]

\* A dependency entry of a manifest: the key and one of the four forms
\* "1.0", {path = ..}, {git = ..}, {workspace = true}.
VersionDep(name, req) == [name |-> name, value |-> [kind |-> "version", text |-> req, path |-> <<>>]]
PathDep(name, p) == [name |-> name, value |-> [kind |-> "path", text |-> "", path |-> p]]
GitDep(name, url) == [name |-> name, value |-> [kind |-> "git", text |-> url, path |-> <<>>]]
WorkspaceDep(name) == [name |-> name, value |-> [kind |-> "workspace", text |-> "", path |-> <<>>]]

\* as_cargo_dependency.
AsCargoDependency(k) ==
    CASE k.path.kind = "Path" -> PathDep(k.name, k.path.path)
      [] k.path.kind = "Workspace" -> WorkspaceDep(k.name)
      [] k.path.kind = "Registry" -> VersionDep(k.name, k.version)
      [] k.path.kind = "Git" -> GitDep(k.name, k.path.url)

\* from_cargo_dependency: name_in_toml and version_req of a dependency cargo
\* read from a manifest ("*" when the entry gives no version).
FromCargoDependency(e, source) ==
    KrateNew(e.name, IF e.value.kind = "version" THEN e.value.text ELSE "*", source)

\* read_manifest in from_path: there is a package manifest at the path.
ManifestReads(d, path) == ResolveManifestPath(path)[2] \in DOMAIN d

\* from_path on a manifest that reads: the package with its source set to
\* the path given, and one Krate per dependency, whose source is the
\* source id's URL for a path dependency and Registry for every other.
KrateOfManifest(d, path) ==
    LET m == d[ResolveManifestPath(path)[2]]
        depKrate(e) == FromCargoDependency(e,
                          IF e.value.kind = "path"
                          THEN Path(<<"file://">> \o e.value.path)
                          ELSE Registry)
    IN  [KrateNew(m.name, m.version, Path(path)) EXCEPT
            !.dependencies = [n \in {e.name : e \in Range(m.deps)} |->
                                 depKrate(CHOOSE e \in Range(m.deps) : e.name = n)]]

\* The one package on disk, and the dependencies its manifest may declare
\* before any link_to.
FooManifest == <<"crates", "foo", ManifestName>>
InitialDeps ==
    { <<>>,
      <<VersionDep("serde", "1.0")>>,
      <<PathDep("log", <<"vendor", "log">>), VersionDep("serde", "1.0")>> }

KratePaths == { <<"crates", "foo">>, FooManifest, <<>>, <<"nowhere">> }
KrateSources ==
    {Registry, Git("https://example.com/foo.git"), Workspace}
        \cup {Path(p) : p \in KratePaths}

\* The packages link_to is given: two names, and for one of them every
\* form of dependency value.
LinkDeps ==
    { KrateNew("serde", "1.0", Registry), KrateNew("serde", "2.0", Registry),
      KrateNew("serde", "0.1.0", Path(<<"vendor", "serde">>)),
      KrateNew("bar", "0.1.0", Workspace),
      KrateNew("bar", "0.1.0", Git("https://example.com/bar.git")) }

\* The number of link_to calls in one behaviour.
MaxLinks == 2

\* Krate::new called by a client.
New(name, version, source) ==
    /\ krateRes = "none"
    /\ thisKrate' = <<KrateNew(name, version, source)>>
    /\ krateRes' = "ok"
    /\ UNCHANGED <<disk, links, wsVars, runVars, resVars, initVars, loadVars, moreVars>>

\* Krate::from_path called by a client.
FromPathOf(path) ==
    /\ krateRes = "none"
    /\ IF ManifestReads(disk, path)
       THEN /\ thisKrate' = <<KrateOfManifest(disk, path)>>
            /\ krateRes' = "ok"
       ELSE /\ thisKrate' = <<>>
            /\ krateRes' = "err"
    /\ UNCHANGED <<disk, links, wsVars, runVars, resVars, initVars, loadVars, moreVars>>

\* LocalManifest::insert_into_table on the dependencies table, always
\* adding an entry.
InsertIntoTableAppending(table, entry) == Append(table, entry)

\* LocalManifest::insert_into_table on the dependencies table: the entry
\* under the key is rewritten where it stands, a new key is added.
InsertIntoTable(table, entry) ==
    IF \E i \in DOMAIN table : table[i].name = entry.name
    THEN [i \in DOMAIN table |->
             IF table[i].name = entry.name THEN entry ELSE table[i]]
    ELSE Append(table, entry)

LinkCall(dep, result) == [dep |-> dep, pre |-> disk, result |-> result]

\* link_to.
LinkTo(dep) ==
    /\ krateRes = "ok"
    /\ Len(links) < MaxLinks
    /\ LET self == thisKrate[1] IN
          IF self.manifest_path # NoPath
          THEN IF self.manifest_path[1] \in DOMAIN disk
               THEN /\ disk' = [disk EXCEPT ![self.manifest_path[1]].deps =
                                   InsertIntoTable(@, AsCargoDependency(dep))]
                    /\ links' = Append(links, LinkCall(dep, "ok"))
               ELSE /\ disk' = disk
                    /\ links' = Append(links, LinkCall(dep, "err:manifest"))
          ELSE /\ disk' = disk
               /\ links' = Append(links, LinkCall(dep, "ok"))
    /\ UNCHANGED <<thisKrate, krateRes, wsVars, runVars, resVars, initVars,
                   loadVars, moreVars>>

(***************************************************************************)
(* Config::from_file (config.rs)                                           *)
(***************************************************************************)

\* A value of the cmd table as serde_json::Value: a string, an object
\* whose fields are values again, or one of the other kinds.
RawString(line) == [kind |-> "string", line |-> line, map |-> EmptyMap]
RawObject(map) == [kind |-> "object", line |-> <<>>, map |-> map]
RawOther(kind) == [kind |-> kind, line |-> <<>>, map |-> EmptyMap]

\* The tables loaded: up to three keys, each with a line, an object with
\* one host, an object whose host entry is not a string, or a number, an
\* array or a boolean.
RawKeys == {"build", "test", "lint"}
RawValues ==
    { RawString(LineC),
      RawObject([f \in {"linux"} |-> RawString(LineL)]),
      RawObject([f \in {"linux", "command"} |->
                    IF f = "linux" THEN RawOther("number") ELSE RawString(LineC)]),
      RawOther("number"), RawOther("array"), RawOther("bool") }
RawTables == UNION {[K -> RawValues] : K \in SUBSET RawKeys}

\* map.get(field).and_then(|v| v.as_str()).map(String::from)
AsStr(map, field) ==
    IF field \in DOMAIN map /\ map[field].kind = "string"
    THEN Some(map[field].line)
    ELSE NoLine

\* The command the loop inserts for a string or an object.
CommandOf(key, value) ==
    IF value.kind = "string" THEN Simple(key, value.line)
    ELSE PlatformSpecific(key, AsStr(value.map, "windows"), AsStr(value.map, "linux"),
                          AsStr(value.map, "darwin"), AsStr(value.map, "command"))

Insert(map, key, value) ==
    [k \in DOMAIN map \cup {key} |-> IF k = key THEN value ELSE map[k]]

\* One turn of the loop with `_ => continue` for its last arm.
LoadStepSkipping(key) ==
    /\ loadPc = "iter"
    /\ key \in pending
    /\ pending' = pending \ {key}
    /\ loopCommands' = IF raw[key].kind \in {"string", "object"}
                       THEN Insert(loopCommands, key, CommandOf(key, raw[key]))
                       ELSE loopCommands
    /\ UNCHANGED <<raw, loadPc, config, wsVars, runVars, resVars, initVars,
                   krateVars, moreVars>>

\* One turn of `for (key, value) in raw_config.cmd`, a HashMap, so the next
\* key is any key not yet visited.
LoadStep(key) ==
    /\ loadPc = "iter"
    /\ key \in pending
    /\ pending' = pending \ {key}
    /\ IF raw[key].kind \in {"string", "object"}
       THEN /\ loopCommands' = Insert(loopCommands, key, CommandOf(key, raw[key]))
            /\ UNCHANGED <<loadPc, config>>
       ELSE /\ loopCommands' = EmptyMap
            /\ loadPc' = "err"
            /\ config' = <<>>
    /\ UNCHANGED <<raw, wsVars, runVars, resVars, initVars, krateVars, moreVars>>

\* Ok(Config { cmd: commands }) once the loop is through.
LoadReturn ==
    /\ loadPc = "iter"
    /\ pending = {}
    /\ loadPc' = "ok"
    /\ config' = <<[cmd |-> loopCommands]>>
    /\ UNCHANGED <<raw, pending, loopCommands, wsVars, runVars, resVars, initVars,
                   krateVars, moreVars>>

\* The paths resolve_manifest_path is given: up to MaxDepth components,
\* the manifest name among them at any place.
MaxDepth == 3
Components == {"crates", "foo", ManifestName}
RECURSIVE PathsOfLen(_)
PathsOfLen(n) ==
    IF n = 0 THEN {<<>>}
    ELSE {Append(p, c) : p \in PathsOfLen(n - 1), c \in Components}
SplitPaths == UNION {PathsOfLen(n) : n \in 0..MaxDepth}

\* resolve_manifest_path applied to the path.
SplitCall ==
    /\ splitOut = <<>>
    /\ splitOut' = <<ResolveManifestPath(splitPath)>>
    /\ UNCHANGED <<splitPath, globalVars, wsVars, runVars, resVars, initVars, krateVars,
                   loadVars>>

\* resolve_manifest_path applied to the manifest path it returned.
SplitAgain ==
    /\ Len(splitOut) = 1
    /\ splitOut' = Append(splitOut, ResolveManifestPath(splitOut[1][2]))
    /\ UNCHANGED <<splitPath, globalVars, wsVars, runVars, resVars, initVars, krateVars,
                   loadVars>>

\* The number of install / uninstall calls in one behaviour.
MaxGlobals == 2

\* How a call on a Path package can go: GlobalContext::default or
\* reload_rooted_at fails, or the cargo operation runs and succeeds or
\* fails.
Outcomes == {"ok", "err:context", "err:cargo"}

GlobalCall(op, result, invoked) == [op |-> op, result |-> result, invoked |-> invoked]

\* install_krate_globally with its `_ => Err(..)` arm taken out: the
\* operation runs for every source.
InstallKrateGloballyUnmatched(outcome) ==
    /\ krateRes = "ok"
    /\ Len(globals) < MaxGlobals
    /\ IF outcome = "err:context"
       THEN /\ adapter' = adapter
            /\ globals' = Append(globals, GlobalCall("install", outcome, FALSE))
       ELSE /\ adapter' = Append(adapter, "install")
            /\ globals' = Append(globals, GlobalCall("install", outcome, TRUE))
    /\ UNCHANGED <<krateVars, splitVars, wsVars, runVars, resVars, initVars, loadVars>>

\* install_krate_globally: the match on self.path first, then the context
\* and the compile options, then ops::install.
InstallKrateGlobally(outcome) ==
    /\ krateRes = "ok"
    /\ Len(globals) < MaxGlobals
    /\ IF thisKrate[1].path.kind # "Path"
       THEN /\ adapter' = adapter
            /\ globals' = Append(globals, GlobalCall("install", "err:unsupported", FALSE))
       ELSE IF outcome = "err:context"
            THEN /\ adapter' = adapter
                 /\ globals' = Append(globals, GlobalCall("install", outcome, FALSE))
            ELSE /\ adapter' = Append(adapter, "install")
                 /\ globals' = Append(globals, GlobalCall("install", outcome, TRUE))
    /\ UNCHANGED <<krateVars, splitVars, wsVars, runVars, resVars, initVars, loadVars>>

\* uninstall_krate_globally: the match on self.path first, then the
\* context, then ops::uninstall.
UninstallKrateGlobally(outcome) ==
    /\ krateRes = "ok"
    /\ Len(globals) < MaxGlobals
    /\ IF thisKrate[1].path.kind # "Path"
       THEN /\ adapter' = adapter
            /\ globals' = Append(globals, GlobalCall("uninstall", "err:unsupported", FALSE))
       ELSE IF outcome = "err:context"
            THEN /\ adapter' = adapter
                 /\ globals' = Append(globals, GlobalCall("uninstall", outcome, FALSE))
            ELSE /\ adapter' = Append(adapter, "uninstall")
                 /\ globals' = Append(globals, GlobalCall("uninstall", outcome, TRUE))
    /\ UNCHANGED <<krateVars, splitVars, wsVars, runVars, resVars, initVars, loadVars>>

(***************************************************************************)
(* Specifications                                                          *)
(***************************************************************************)

\* A workspace as `initialize` leaves it, loaded.
EmptyWorkspace ==
    /\ manifest = [name |-> "demo", members |-> <<>>]
    /\ dirs = EmptyMap
    /\ crates = EmptyMap
    /\ hist = <<>>

WorkspaceAtRest ==
    /\ EmptyWorkspace
    /\ faulty = FALSE

RunAtRest ==
    /\ names = <<>>
    /\ idx = 1
    /\ batchPc = "returned"
    /\ reported = <<>>
    /\ joined = {}
    /\ task = <<>>

ResolveAtRest ==
    /\ rcmd = Simple("build", <<"echo", "hi">>)
    /\ rline = NoLine

InitializeAtRest ==
    /\ file = NoFile
    /\ initPc = "idle"
    /\ inits = <<>>

KrateAtRest ==
    /\ disk = EmptyMap
    /\ thisKrate = <<>>
    /\ krateRes = "none"
    /\ links = <<>>

LoadAtRest ==
    /\ raw = EmptyMap
    /\ pending = {}
    /\ loopCommands = EmptyMap
    /\ loadPc = "ok"
    /\ config = <<[cmd |-> EmptyMap]>>

SplitAtRest ==
    /\ splitPath = <<>>
    /\ splitOut = <<>>

GlobalAtRest ==
    /\ adapter = <<>>
    /\ globals = <<>>

\* The workspace calls on a filesystem that does not fail.
InitWorkspace ==
    /\ InitializeAtRest
    /\ KrateAtRest
    /\ LoadAtRest
    /\ SplitAtRest
    /\ GlobalAtRest
    /\ WorkspaceAtRest
    /\ RunAtRest
    /\ hostOs = "linux"
    /\ ResolveAtRest

NextWorkspace ==
    \/ FromPath
    \/ \E n \in PkgNames, p \in PkgPaths, k \in KrateKinds : CreateMember(n, p, k)
    \/ \E n \in PkgNames, d \in BOOLEAN : RemoveMember(n, d)

SpecWorkspace == InitWorkspace /\ [][NextWorkspace]_vars

\* The same calls on a filesystem that may fail a write or a deletion.
InitWorkspaceFaults ==
    /\ InitializeAtRest
    /\ KrateAtRest
    /\ LoadAtRest
    /\ SplitAtRest
    /\ GlobalAtRest
    /\ EmptyWorkspace
    /\ faulty = TRUE
    /\ RunAtRest
    /\ hostOs = "linux"
    /\ ResolveAtRest

SpecWorkspaceFaults == InitWorkspaceFaults /\ [][NextWorkspace]_vars

\* execute_commands_in_parallel called with one of the lists, in a build
\* for Linux.
InitRun ==
    /\ InitializeAtRest
    /\ KrateAtRest
    /\ LoadAtRest
    /\ SplitAtRest
    /\ GlobalAtRest
    /\ WorkspaceAtRest
    /\ ResolveAtRest
    /\ hostOs = "linux"
    /\ names \in NameLists
    /\ idx = 1
    /\ batchPc = "launching"
    /\ reported = <<>>
    /\ joined = {}
    /\ task = [t \in 1..Len(names) |-> NotSpawned]

NextRun ==
    \/ BatchStep
    \/ BatchJoinAll
    \/ BatchReturn
    \/ \E t \in Positions :
          \/ JoinNext(t)
          \/ TaskSpawn(t)
          \/ Wait(t)
          \/ \E s \in Streams :
                \/ ReadLine(t, s)
                \/ ReadEof(t, s)
                \/ ReadErr(t, s)
                \/ ChildWrite(t, s)
                \/ ChildClose(t, s)
          \/ \E c \in ExitCodes : ChildExit(t, c)

SpecRun == InitRun /\ [][NextRun]_vars

InitResolve ==
    /\ InitializeAtRest
    /\ KrateAtRest
    /\ LoadAtRest
    /\ SplitAtRest
    /\ GlobalAtRest
    /\ WorkspaceAtRest
    /\ RunAtRest
    /\ hostOs \in HostOSes
    /\ rcmd \in ResolvableCommands
    /\ rline = NoLine

NextResolve == Resolve

SpecResolve == InitResolve /\ [][NextResolve]_vars

\* initialize called, again and again, on a path that holds one of the
\* initial files.
InitInitialize ==
    /\ KrateAtRest
    /\ LoadAtRest
    /\ SplitAtRest
    /\ GlobalAtRest
    /\ WorkspaceAtRest
    /\ RunAtRest
    /\ hostOs = "linux"
    /\ ResolveAtRest
    /\ file \in InitialFiles
    /\ initPc = "idle"
    /\ inits = <<>>

NextInitialize ==
    \/ \E n \in WorkspaceNames : InitializeBegin(n)
    \/ InitializeWrite
    \/ InitializeLoad

SpecInitialize == InitInitialize /\ [][NextInitialize]_vars

\* A client constructs a Krate and links dependencies into it.
InitKrate ==
    /\ InitializeAtRest
    /\ LoadAtRest
    /\ SplitAtRest
    /\ GlobalAtRest
    /\ WorkspaceAtRest
    /\ RunAtRest
    /\ hostOs = "linux"
    /\ ResolveAtRest
    /\ \E deps \in InitialDeps :
          disk = [p \in {FooManifest} |->
                     [name |-> "foo", version |-> "0.1.0", deps |-> deps]]
    /\ thisKrate = <<>>
    /\ krateRes = "none"
    /\ links = <<>>

NextKrate ==
    \/ \E s \in KrateSources : New("foo", "0.1.0", s)
    \/ \E p \in KratePaths : FromPathOf(p)
    \/ \E d \in LinkDeps : LinkTo(d)

SpecKrate == InitKrate /\ [][NextKrate]_vars

\* A client constructs a Krate and installs or uninstalls it.
InitGlobal == InitKrate

NextGlobal ==
    \/ \E s \in KrateSources : New("foo", "0.1.0", s)
    \/ \E p \in KratePaths : FromPathOf(p)
    \/ \E o \in Outcomes : InstallKrateGlobally(o)
    \/ \E o \in Outcomes : UninstallKrateGlobally(o)

SpecGlobal == InitGlobal /\ [][NextGlobal]_vars

\* from_file after toml::from_str has parsed one of the tables.
InitLoad ==
    /\ InitializeAtRest
    /\ KrateAtRest
    /\ SplitAtRest
    /\ GlobalAtRest
    /\ WorkspaceAtRest
    /\ RunAtRest
    /\ hostOs = "linux"
    /\ ResolveAtRest
    /\ raw \in RawTables
    /\ pending = DOMAIN raw
    /\ loopCommands = EmptyMap
    /\ loadPc = "iter"
    /\ config = <<>>

NextLoad ==
    \/ \E k \in RawKeys : LoadStep(k)
    \/ LoadReturn

SpecLoad == InitLoad /\ [][NextLoad]_vars

\* resolve_manifest_path on one of the paths, then on its own output.
InitSplit ==
    /\ InitializeAtRest
    /\ KrateAtRest
    /\ LoadAtRest
    /\ WorkspaceAtRest
    /\ RunAtRest
    /\ hostOs = "linux"
    /\ ResolveAtRest
    /\ GlobalAtRest
    /\ splitPath \in SplitPaths
    /\ splitOut = <<>>

NextSplit ==
    \/ SplitCall
    \/ SplitAgain

SpecSplit == InitSplit /\ [][NextSplit]_vars

(***************************************************************************)
(* Claims: Workspace (SpecWorkspace)                                       *)
(***************************************************************************)

LastIs(op) == hist # <<>> /\ Last.op = op

\* C1: after remove_member(name, _) on a current member, a fresh reload of
\* the workspace from disk does not list that member, whatever path string
\* the members array uses for it.
C1_RemovedMemberNotReloaded ==
    (LastIs("remove") /\ Last.wasMember) => Last.name \notin ReloadNames

\* C4: on one instance, create_member("foo", path, _) followed by
\* remove_member("foo", delete_files = TRUE) leaves no directory at path
\* and no entry for it in the members array.
C4_CreateThenRemoveLeavesNothing ==
    (/\ Len(hist) = 2
     /\ hist[1].op = "create" /\ hist[1].name = "foo"
     /\ hist[2].op = "remove" /\ hist[2].name = "foo" /\ hist[2].del)
    => /\ hist[1].path \notin DOMAIN dirs
       /\ hist[1].path \notin Range(manifest.members)

\* C5: remove_member on a name that is not a current member returns false
\* and leaves the descriptor, the member map and the directories as they
\* were, for either value of delete_files.
C5_NonMemberRemoveChangesNothing ==
    (LastIs("remove") /\ ~Last.wasMember)
    => /\ Last.result = "false"
       /\ manifest = Last.preManifest
       /\ crates = Last.preCrates
       /\ dirs = Last.preDirs

\* C5 witness: a non-member name is removed with delete_files while the
\* descriptor lists a path equal to it and a directory stands there.
C5_Witness ==
    /\ LastIs("remove") /\ ~Last.wasMember /\ Last.del
    /\ Last.name \in Range(manifest.members)
    /\ Last.name \in DOMAIN dirs

\* C15: every key of the in-memory member map has its entry in the
\* members array of the descriptor on disk: the path of its crate.
C15_MembersWithinDescriptor ==
    \A n \in DOMAIN crates : crates[n].path \in Range(manifest.members)

\* The call filtered an entry out of the array, and so went on to write.
LastRewrote ==
    /\ LastIs("remove") /\ Last.wasMember
    /\ Len(Retain(Last.preManifest.members, Last.name)) < Len(Last.preManifest.members)

C2_ReturnsAfterExitAndBothEof ==
    \A t \in DOMAIN task :
        (task[t].pc = "done" /\ ~task[t].readErr)
        => /\ task[t].child = "exited"
           /\ \A s \in Streams : task[t].eof[s] /\ task[t].pipe[s] = 0

\* C3: when stream_command returns, every line the child wrote to stdout
\* and to stderr has been printed behind the command's tag.
C3_NoLineDropped ==
    \A t \in DOMAIN task :
        (task[t].pc = "done" /\ ~task[t].readErr)
        => \A s \in Streams :
              Sink(t, s) = [k \in 1..task[t].wrote[s] |->
                               <<TagKey(names[t]), <<s, k>>>>]

Unknown(n) == n \notin DOMAIN cmd

\* The task ran to its end: it returned after its child exited, or it
\* ended on the failure of its own launch.
RanToEnd(t) ==
    /\ t \in Finished
    /\ task[t].pc = "done" => task[t].child = "exited"

\* C6: unknown names are reported and skipped, wherever they stand in the
\* list: every one passed is reported, none gets a task, every known name
\* passed has its task, and when the batch returns every known name's
\* task has run to its end.
C6_UnknownNamesSkipped ==
    /\ reported = SelectSeq(SubSeq(names, 1, idx - 1), Unknown)
    /\ \A i \in DOMAIN names : Unknown(names[i]) => task[i].pc = "idle"
    /\ \A i \in DOMAIN names : (i < idx /\ ~Unknown(names[i])) => i \in Launched
    /\ batchPc = "returned" => \A i \in Known : RanToEnd(i)

\* C6 witness: the batch <<"nope", "test", "nope">> has returned, both
\* unknown names reported and the known command run to a normal end.
C6_Witness ==
    /\ batchPc = "returned"
    /\ names = <<"nope", "test", "nope">>
    /\ reported = <<"nope", "nope">>
    /\ task[2].pc = "done"

\* A task failed: the launch failed, a stream read failed, or the child
\* exited non-zero.
Failed(t) ==
    \/ task[t].pc = "panicked"
    \/ task[t].readErr
    \/ task[t].child = "exited" /\ task[t].code # 0

\* C7: a failed task never ends the batch or a sibling: whenever a task
\* has failed and the batch has returned, every other launched task has
\* run to its end and has been joined.
C7_FailureIsolated ==
    \A t \in DOMAIN task :
        (Failed(t) /\ batchPc = "returned")
        => \A u \in Launched \ {t} : RanToEnd(u) /\ u \in joined

\* C7 witness: the batch has returned with one task panicked at launch and
\* its sibling returned after a child that exited with status 0.
C7_Witness ==
    /\ batchPc = "returned"
    /\ \E t, u \in Launched :
          /\ task[t].pc = "panicked"
          /\ task[u].pc = "done" /\ task[u].child = "exited" /\ task[u].code = 0

\* C8: the loop spawns a task for a known name without waiting for any
\* task spawned before, and the batch returns only once every launched
\* task has finished, by return or by panic, and has been joined.
C8_AllLaunchedAllAwaited ==
    /\ (batchPc = "launching" /\ idx <= Len(names)) => ENABLED BatchStep
    /\ batchPc # "launching" => Launched = Known
    /\ batchPc = "returned" => (joined = Launched /\ Launched \subseteq Finished)

\* C8 witness: the batch has returned after two launched tasks, both
\* returned normally after a child that wrote to both streams.
C8_Witness ==
    /\ batchPc = "returned"
    /\ Cardinality(Launched) = 2
    /\ \A t \in Launched :
          task[t].pc = "done" /\ \A s \in Streams : task[t].wrote[s] > 0

\* C12: a command whose resolved line is empty is a no-op: once its task
\* is past the launch, no child exists and the task has not failed.
C12_EmptyLineIsNoOp ==
    \A t \in DOMAIN task :
        (/\ task[t].pc \notin {"idle", "start"}
         /\ ResolveLine(cmd[task[t].key], hostOs) = EmptyLine)
        => task[t].child = "none" /\ task[t].pc # "panicked"

(***************************************************************************)
(* Claims: platform resolution (SpecResolve)                               *)
(***************************************************************************)

\* The entry of the host: windows, linux, and darwin on a macOS host.
HostEntry(commands, os) ==
    CASE os = "windows" -> commands.windows
      [] os = "linux"   -> commands.linux
      [] os = "macos"   -> commands.darwin
      [] OTHER          -> NoLine

\* C9: a PlatformSpecific command resolves to the entry of the host when
\* it is present (the darwin entry on a macOS host), to the generic line
\* when that entry is absent, and to the empty line when both are absent.
C9_HostEntrySelected ==
    (rline # NoLine /\ rcmd.kind = "PlatformSpecific")
    => rline[1] =
         IF HostEntry(rcmd.commands, hostOs) # NoLine
         THEN HostEntry(rcmd.commands, hostOs)[1]
         ELSE IF rcmd.commands.command # NoLine THEN rcmd.commands.command[1]
         ELSE EmptyLine

OnlyFallback(c) ==
    /\ c.kind = "PlatformSpecific"
    /\ c.commands.windows = NoLine
    /\ c.commands.linux = NoLine
    /\ c.commands.darwin = NoLine
    /\ c.commands.command # NoLine

\* C10: a PlatformSpecific command with the generic line alone resolves to
\* that line on every host, known or unknown.
C10_FallbackOnEveryHost ==
    (rline # NoLine /\ OnlyFallback(rcmd)) => rline[1] = rcmd.commands.command[1]

\* C10 witness: a command with the generic line alone has been resolved on
\* a host the match names (windows), to that line.
C10_Witness ==
    /\ OnlyFallback(rcmd)
    /\ hostOs = "windows"
    /\ rline = Some(LineC)

\* C11: resolution yields the empty line only if the command has no line
\* for the host's OS and no generic line.
C11_EmptyOnlyWithoutLines ==
    (rline = Some(EmptyLine) /\ rcmd.kind = "PlatformSpecific")
    => /\ HostEntry(rcmd.commands, hostOs) = NoLine
       /\ rcmd.commands.command = NoLine

(***************************************************************************)
(* Claims: Workspace::initialize (SpecInitialize)                          *)
(***************************************************************************)

NoCallRunning == initPc = "idle" /\ inits # <<>>

\* C13: initialize on a path without a descriptor creates one with
\* members = [] and the given name; on a path with a descriptor it leaves
\* the file; so after any number of calls, with any names, the file is as
\* the first call left it.
C13_InitializeOnceThenUnchanged ==
    NoCallRunning
    => file = IF inits[1].pre.exists THEN inits[1].pre
              ELSE FileOf(FreshDescriptor(inits[1].name))

\* C13 witness: a first call created the descriptor and a later call with
\* another name has returned.
C13_Witness ==
    /\ NoCallRunning
    /\ Len(inits) > 1
    /\ ~inits[1].pre.exists
    /\ inits[Len(inits)].name # inits[1].name
    /\ inits[Len(inits)].result = "ok"

\* C14: at every point of a structural call the descriptor on disk is
\* whole: the content the call found or the content it leaves.
C14_DescriptorNeverPartial ==
    inits # <<>>
    => LET call == inits[Len(inits)] IN
       \/ file = call.pre
       \/ file = FileOf(FreshDescriptor(call.name))

(***************************************************************************)
(* Claims: Krate (SpecKrate)                                               *)
(***************************************************************************)

Self == thisKrate[1]

\* C17: link_to on a package without manifest_path fails with an
\* "unsupported origin" error; it never returns success without having
\* declared the dependency.
C17_LinkWithoutManifestPathFails ==
    \A i \in DOMAIN links :
        Self.manifest_path = NoPath => links[i].result = "err:unsupported origin"

\* The dependencies table of the package's manifest before and after the
\* i-th link_to call.
DepsBefore(i) == links[i].pre[Self.manifest_path[1]].deps
DepsAfter(i) ==
    IF i < Len(links) THEN DepsBefore(i + 1) ELSE disk[Self.manifest_path[1]].deps

Keyed(table, name) == {j \in DOMAIN table : table[j].name = name}
Others(table, name) == SelectSeq(table, LAMBDA e : e.name # name)

Declared(i) == links[i].result = "ok" /\ Self.manifest_path # NoPath

\* C18: after every link_to that wrote the manifest, the dependencies
\* table holds exactly one entry under the name linked, with the value of
\* that call, and the entries under other names are as they were.
C18_OneEntryWithLastValue ==
    \A i \in DOMAIN links :
        Declared(i) =>
            LET entry == AsCargoDependency(links[i].dep) IN
            /\ Cardinality(Keyed(DepsAfter(i), entry.name)) = 1
            /\ \A j \in Keyed(DepsAfter(i), entry.name) :
                  DepsAfter(i)[j].value = entry.value
            /\ Others(DepsAfter(i), entry.name) = Others(DepsBefore(i), entry.name)

\* Two calls with the same name and different values, both written, in a
\* manifest that declares another name too.
C18_Witness ==
    /\ Len(links) = 2
    /\ Declared(1) /\ Declared(2)
    /\ links[1].dep.name = links[2].dep.name
    /\ links[1].dep # links[2].dep
    /\ Others(disk[Self.manifest_path[1]].deps, links[2].dep.name) # <<>>

\* The packages a constructor call produced: the Krate and the
\* dependencies materialized in it.
Produced == IF thisKrate = <<>> THEN {} ELSE {Self} \cup Range(Self.dependencies)

\* C19 as stated: manifest_path is set if and only if the origin is Path
\* or Workspace.
C19_ManifestPathIffPathOrWorkspace ==
    \A k \in Produced :
        k.manifest_path # NoPath <=> k.path.kind \in {"Path", "Workspace"}

\* C19: manifest_path is set if and only if the origin is Path; it is the
\* manifest path resolve_manifest_path gives for that path.
C19_ManifestPathIffPath ==
    \A k \in Produced :
        /\ k.manifest_path # NoPath <=> k.path.kind = "Path"
        /\ k.path.kind = "Path"
              => k.manifest_path = Some(ResolveManifestPath(k.path.path)[2])

\* from_path produced a package with a path dependency and a registry
\* dependency.
C19_Witness ==
    /\ krateRes = "ok"
    /\ \E a, b \in Range(Self.dependencies) :
          a.path.kind = "Path" /\ b.path.kind = "Registry"

(***************************************************************************)
(* Claims: Config::from_file (SpecLoad)                                    *)
(***************************************************************************)

Bad(value) == value.kind \notin {"string", "object"}
Visited == DOMAIN raw \ pending

\* C20: the load fails, with no registry returned, exactly when some value
\* of the table is neither a string nor an object, wherever the loop meets
\* it; otherwise the registry holds one command per key of the table.
C20_LoadAllOrNothing ==
    /\ loadPc = "iter" => config = <<>> /\ \A k \in Visited : ~Bad(raw[k])
    /\ loadPc = "err" => config = <<>> /\ \E k \in DOMAIN raw : Bad(raw[k])
    /\ loadPc = "ok" =>
          /\ \A k \in DOMAIN raw : ~Bad(raw[k])
          /\ config # <<>>
          /\ DOMAIN config[1].cmd = DOMAIN raw
          /\ \A k \in DOMAIN raw : config[1].cmd[k] = CommandOf(k, raw[k])

\* The load failed on a bad value met after valid ones, with another key
\* still unvisited.
C20_Witness ==
    /\ loadPc = "err"
    /\ \E k \in Visited : ~Bad(raw[k])
    /\ pending # {}

(***************************************************************************)
(* Claims: resolve_manifest_path (SpecSplit)                               *)
(***************************************************************************)

NamesManifest(path) == path # <<>> /\ path[Len(path)] = ManifestName

\* C21: a path that names a manifest file gives (parent, path); every
\* other path, the empty one too, gives (path, path/Cargo.toml).
C21_SplitManifest ==
    splitOut # <<>>
    => splitOut[1] = IF NamesManifest(splitPath)
                     THEN <<SubSeq(splitPath, 1, Len(splitPath) - 1), splitPath>>
                     ELSE <<splitPath, splitPath \o <<ManifestName>> >>

\* A path of several components that names no manifest has been resolved.
C21_Witness ==
    /\ splitOut # <<>>
    /\ Len(splitPath) > 1
    /\ ~NamesManifest(splitPath)

\* C22: resolve_manifest_path applied to the manifest path it returned
\* gives the same root and the same manifest path again.
C22_SplitIdempotent ==
    Len(splitOut) = 2 => splitOut[2] = splitOut[1]

\* The second application is done, for the empty path.
C22_Witness ==
    /\ Len(splitOut) = 2
    /\ splitPath = <<>>

(***************************************************************************)
(* Claims: install and uninstall (SpecGlobal)                              *)
(***************************************************************************)

\* C23: install and uninstall return Ok only on a package whose source
\* is Path; on every other source they return the unsupported-origin
\* error, and the cargo operation has not been invoked.
C23_OnlyPathInstalls ==
    \A i \in DOMAIN globals :
        /\ globals[i].result = "ok" => Self.path.kind = "Path"
        /\ Self.path.kind # "Path"
              => /\ globals[i].result = "err:unsupported"
                 /\ ~globals[i].invoked
                 /\ adapter = <<>>

\* Both calls made on a package from the registry.
C23_Witness ==
    /\ Len(globals) = 2
    /\ Self.path.kind = "Registry"
    /\ globals[1].op # globals[2].op

(***************************************************************************)
(* Claims: remove_member under faults (SpecWorkspaceFaults)                *)
(***************************************************************************)

LastRemovedMember == LastIs("remove") /\ Last.wasMember

Rewritten ==
    [Last.preManifest EXCEPT !.members = Retain(Last.preManifest.members, Last.name)]

\* C24: on a current member, a failure to find, read, parse or write the
\* descriptor is an error that leaves the map and the directories (and
\* the descriptor) as they were; true is returned, and a directory
\* removed, only with the descriptor written and the name out of the map.
C24_WriteThenMapThenDirectory ==
    LastRemovedMember
    => /\ Last.fault \in {"read", "write"}
             => /\ Last.result \in {"err:read", "err:write"}
                /\ crates = Last.preCrates
                /\ dirs = Last.preDirs
                /\ manifest = Last.preManifest
       /\ (Last.result = "true" \/ dirs # Last.preDirs)
             => /\ manifest = Rewritten
                /\ Len(manifest.members) < Len(Last.preManifest.members)
                /\ Last.name \notin DOMAIN crates

\* The write failed for a member whose entry the call had filtered out.
C24_Witness ==
    /\ LastRemovedMember
    /\ Last.fault = "write"
    /\ Rewritten # Last.preManifest

\* C25: for a name that is not a current member remove_member returns
\* false, not an error, whatever the state of the descriptor file.
C25_NonMemberFalseBeforeDescriptor ==
    (LastIs("remove") /\ ~Last.wasMember) => Last.result = "false"

(***************************************************************************)
(* Claims: exit and termination of stream_command (SpecRun)                *)
(***************************************************************************)

\* All a task prints: the lines of its child, behind the tag.
Printed(t) == Range(Sink(t, "out")) \cup Range(Sink(t, "err"))

\* C26: a task whose child exited with a non-zero status has printed a
\* report of that exit by the time it returns.
C26_NonZeroExitLogged ==
    \A t \in DOMAIN task :
        (task[t].pc = "done" /\ task[t].code # 0)
        => <<TagKey(task[t].key), <<"exit", task[t].code>> >> \in Printed(t)

\* stream_command is at child.wait() while the child, not yet through its
\* output, is blocked on the full pipe of stream s, which nothing reads.
BlockedWait(t, s) ==
    /\ task[t].pc = "wait"
    /\ task[t].child = "running"
    /\ ~task[t].shut[s]
    /\ task[t].wrote[s] < task[t].plan[s]
    /\ task[t].pipe[s] = PipeCap

\* Once there, the task stays there: no step takes a line from the pipe.
BlockedWaitIsForever ==
    [][\A t \in DOMAIN task : \A s \in Streams :
          BlockedWait(t, s) => BlockedWait(t, s)']_vars

\* C27: stream_command never waits for the exit of a child that is
\* blocked writing to a pipe it has stopped reading.
C27_NeverWaitsOnBlockedChild ==
    \A t \in DOMAIN task : \A s \in Streams : ~BlockedWait(t, s)

====
